---------------------------- MODULE Spec2Model ----------------------------
(***************************************************************************)
(* A model of scrapper.py: configuration validation, the crawl state store *)
(* (load_scrapped_urls), the link extractor (Crawler._extract_url), the    *)
(* recursive site crawler (CrawlerRecursive.find_articles / crawl) and the *)
(* per-article loop of the main block.                                     *)
(*                                                                         *)
(* The web is the environment: what a fetch returns (a network error, or a *)
(* document with some anchors) is chosen when the fetch happens, and the   *)
(* anchors of a fetched page are revealed one at a time as the for-loop of *)
(* crawl reaches them. Every fixed link graph is one of these behaviours.  *)
(***************************************************************************)
EXTENDS Integers, Sequences, FiniteSets, Bags, TLC

(***************************************************************************)
(* Bounds of the model.                                                    *)
(***************************************************************************)
\* the largest article budget a checked configuration asks for
MaxBudget == 4
\* the largest record id present in the output directory before a run
MaxDiskId == 2
\* the largest number of anchors on one page walked by crawl
MaxLinks == 2
\* the largest number of anchors in the numbered rows of an issue page
MaxRowLinks == 1

\* the site: its navigation pages besides the seed, its issue pages, and its
\* articles
NavNumbers == {1}

IssueNumbers == {1, 2}

ArticleNumbers == {1, 2, 3, 4}

\* validate_config's upper limit of total_articles_to_find_and_parse
MaxArticlesLimit == 100

(***************************************************************************)
(* URLs. A URL is a record of the parts the code's regular expressions and *)
(* substring tests look at: the scheme, the host, the language partition,  *)
(* the query prefix and a number telling pages apart. An href is the same  *)
(* record; a relative href has the scheme "" and the host "".              *)
(***************************************************************************)
ROOT_URL == "vestnik.unn.ru"

RUSSIAN_ROOT_URL == [scheme |-> "http://", host |-> ROOT_URL, lang |-> "/ru"]

DOMAIN_URL == [scheme |-> "http://", host |-> ROOT_URL, lang |-> "/ru"]

Url(scheme, host, lang, query, num) ==
    [scheme |-> scheme, host |-> host, lang |-> lang, query |-> query, num |-> num]

TocUrl == Url("http://", ROOT_URL, "/ru", "", 0)

NavUrl(k) == Url("http://", ROOT_URL, "/ru", "", k)

IssueUrl(k) == Url("http://", ROOT_URL, "/ru", "?jnum=", k)

EngIssueUrl == Url("http://", ROOT_URL, "/eng", "?jnum=", 1)

ExternalUrl == Url("https://", "example.org", "", "", 0)

MailtoUrl == Url("mailto:", "", "", "", 0)

\* hrefs found in the numbered rows of an issue page
AnumHref(k) == Url("", "", "", "?anum=", k)

AuthorHref == Url("", "", "", "?aunum=", 1)

RowHrefs == {AnumHref(k) : k \in ArticleNumbers} \cup {AuthorHref}

\* ''.join([DOMAIN_URL, link_bs['href']])
JoinDomain(href) ==
    Url(DOMAIN_URL.scheme, DOMAIN_URL.host, DOMAIN_URL.lang, href.query, href.num)

ArticleUrl(k) == JoinDomain(AnumHref(k))

\* re.match(r'^\?anum', href)
MatchesAnum(href) == href.scheme = "" /\ href.host = "" /\ href.lang = "" /\ href.query = "?anum="

\* re.match(r'(^http://|^https://)', link)
MatchesScheme(link) == link.scheme \in {"http://", "https://"}

\* urljoin(url_to_crawl, link): a reference without a scheme takes the base's
\* scheme and host (and its language partition when it names none); a
\* reference with another scheme is returned as it is
UrlJoin(base, href) ==
    IF href.scheme # "" THEN href
    ELSE Url(base.scheme, base.host,
             IF href.lang = "" THEN base.lang ELSE href.lang,
             href.query, href.num)

absolute_url_structure_is_valid(url_to_check) ==
    ~ (~MatchesScheme(url_to_check) \/ url_to_check.host # ROOT_URL)

\* RUSSIAN_ROOT_URL in link
ContainsRussianRoot(link) ==
    /\ link.scheme = RUSSIAN_ROOT_URL.scheme
    /\ link.host = RUSSIAN_ROOT_URL.host
    /\ link.lang = RUSSIAN_ROOT_URL.lang

\* 'eng' in link
ContainsEng(link) == link.lang = "/eng"

\* re.search(r'\?jnum=', link)
IsIssueLink(link) == link.query = "?jnum="

(***************************************************************************)
(* Anchors of a page walked by crawl: an anchor without href, one with an  *)
(* empty href, or one with an href.                                        *)
(***************************************************************************)
Anchor(kind, href) == [kind |-> kind, href |-> href]

PageHrefs ==
    {TocUrl, EngIssueUrl, ExternalUrl, MailtoUrl}
    \cup {Url("", "", "", "", k) : k \in NavNumbers}
    \cup {IssueUrl(k) : k \in IssueNumbers}
    \cup {Url("", "", "/ru", "?jnum=", k) : k \in IssueNumbers}

Anchors ==
    {Anchor("nohref", MailtoUrl), Anchor("empty", Url("", "", "", "", 0))}
    \cup {Anchor("href", h) : h \in PageHrefs}

Range(s) == {s[i] : i \in DOMAIN s}

SeqsUpTo(S, n) == UNION {[1..k -> S] : k \in 0..n}


(***************************************************************************)
(* The link extractor, Crawler._extract_url: the anchors of the numbered   *)
(* rows in document order (links_bs), self.urls and self.max_articles.     *)
(***************************************************************************)
RECURSIVE ExtractLoop(_, _, _, _, _)
ExtractLoop(links_bs, self_urls, max, found, overall_urls_count) ==
    IF links_bs = <<>> THEN found
    ELSE IF overall_urls_count + 1 > max THEN found
    ELSE LET href == Head(links_bs)
             link_url == JoinDomain(href)
         IN  IF ~MatchesAnum(href)
             THEN ExtractLoop(Tail(links_bs), self_urls, max, found, overall_urls_count)
             ELSE IF link_url \notin Range(self_urls) /\ link_url \notin Range(found)
             THEN ExtractLoop(Tail(links_bs), self_urls, max,
                              Append(found, link_url), overall_urls_count + 1)
             ELSE ExtractLoop(Tail(links_bs), self_urls, max, found, overall_urls_count)

\* _extract_url with the budget test of line 129 off by one
RECURSIVE ExtractLoopLate(_, _, _, _, _)
ExtractLoopLate(links_bs, self_urls, max, found, overall_urls_count) ==
    IF links_bs = <<>> THEN found
    ELSE IF overall_urls_count > max THEN found
    ELSE LET href == Head(links_bs)
             link_url == JoinDomain(href)
         IN  IF ~MatchesAnum(href)
             THEN ExtractLoopLate(Tail(links_bs), self_urls, max, found, overall_urls_count)
             ELSE IF link_url \notin Range(self_urls) /\ link_url \notin Range(found)
             THEN ExtractLoopLate(Tail(links_bs), self_urls, max,
                                  Append(found, link_url), overall_urls_count + 1)
             ELSE ExtractLoopLate(Tail(links_bs), self_urls, max, found, overall_urls_count)

extract_url_BudgetOffByOne(links_bs, self_urls, max) ==
    ExtractLoopLate(links_bs, self_urls, max, <<>>, Len(self_urls))

\* _extract_url counting a link it passes over (line 142 moved out of the if)
RECURSIVE ExtractLoopCountsAll(_, _, _, _, _)
ExtractLoopCountsAll(links_bs, self_urls, max, found, overall_urls_count) ==
    IF links_bs = <<>> THEN found
    ELSE IF overall_urls_count + 1 > max THEN found
    ELSE LET href == Head(links_bs)
             link_url == JoinDomain(href)
         IN  IF ~MatchesAnum(href)
             THEN ExtractLoopCountsAll(Tail(links_bs), self_urls, max, found, overall_urls_count)
             ELSE IF link_url \notin Range(self_urls) /\ link_url \notin Range(found)
             THEN ExtractLoopCountsAll(Tail(links_bs), self_urls, max,
                                       Append(found, link_url), overall_urls_count + 1)
             ELSE ExtractLoopCountsAll(Tail(links_bs), self_urls, max, found,
                                       overall_urls_count + 1)

extract_url_CountsPassedOver(links_bs, self_urls, max) ==
    ExtractLoopCountsAll(links_bs, self_urls, max, <<>>, Len(self_urls))

\* _extract_url without the test of line 140 against self.urls
RECURSIVE ExtractLoopNoSelf(_, _, _, _, _)
ExtractLoopNoSelf(links_bs, self_urls, max, found, overall_urls_count) ==
    IF links_bs = <<>> THEN found
    ELSE IF overall_urls_count + 1 > max THEN found
    ELSE LET href == Head(links_bs)
             link_url == JoinDomain(href)
         IN  IF ~MatchesAnum(href)
             THEN ExtractLoopNoSelf(Tail(links_bs), self_urls, max, found, overall_urls_count)
             ELSE IF link_url \notin Range(found)
             THEN ExtractLoopNoSelf(Tail(links_bs), self_urls, max,
                                    Append(found, link_url), overall_urls_count + 1)
             ELSE ExtractLoopNoSelf(Tail(links_bs), self_urls, max, found, overall_urls_count)

extract_url_NotAgainstSelf(links_bs, self_urls, max) ==
    ExtractLoopNoSelf(links_bs, self_urls, max, <<>>, Len(self_urls))

extract_url(links_bs, self_urls, max) ==
    ExtractLoop(links_bs, self_urls, max, <<>>, Len(self_urls))

(***************************************************************************)
(* The output directory: whether it exists, its metadata records (id to    *)
(* the record's url field) and the ids of its raw-document artifacts.      *)
(***************************************************************************)
EmptyMeta == [i \in {} |-> TocUrl]

EmptyDir == [exists |-> TRUE, meta |-> EmptyMeta, pdf |-> {}]

NoDir == [exists |-> FALSE, meta |-> EmptyMeta, pdf |-> {}]

\* stem[0]: the first character of the file name "<id>_meta"
RECURSIVE FirstDigit(_)
FirstDigit(id) == IF id < 10 THEN id ELSE FirstDigit(id \div 10)

\* the orders in which iterdir() may yield the metadata files
IterDir(d) == {f \in [1..Cardinality(DOMAIN d.meta) -> DOMAIN d.meta] : Range(f) = DOMAIN d.meta}

RECURSIVE LoadLoop(_, _, _)
LoadLoop(d, files, scrapped_urls) ==
    IF files = <<>> THEN scrapped_urls
    ELSE LET stem == Head(files)
             number == FirstDigit(stem)
         IN  LoadLoop(d, Tail(files),
                      IF number \in d.pdf THEN Append(scrapped_urls, d.meta[stem])
                      ELSE scrapped_urls)

load_scrapped_urls(d, files) ==
    IF ~d.exists THEN <<>> ELSE LoadLoop(d, files, <<>>)

\* prepare_environment: the directory is removed and created anew
prepare_environment(d) == EmptyDir

(***************************************************************************)
(* The text of a downloaded document, lines 78-82 and 98-101. A text is a  *)
(* sequence of characters. The marker 'Список литературы' is a string none *)
(* of whose proper prefixes is also its suffix, so its occurrences in a    *)
(* text never overlap; the two-character string "S", "L" stands for it.    *)
(* "R" stands for 'Поступила в редакцию' with the white space after it,    *)
(* "d" for ten characters dd.mm.yyyy that name a day of the calendar, "e"  *)
(* for ten characters of that shape that name none, "x" for anything else. *)
(***************************************************************************)
MaxTextLen == 5

TextChars == {"S", "L", "R", "d", "e", "x"}

Marker == <<"S", "L">>

\* sep occurs in s at position i
OccursAt(s, sep, i) ==
    i >= 1 /\ i + Len(sep) - 1 <= Len(s) /\ SubSeq(s, i, i + Len(sep) - 1) = sep

\* s.find(sep): the lowest position where sep occurs, or 0
Find(s, sep) ==
    IF \E i \in 1..Len(s) : OccursAt(s, sep, i)
    THEN CHOOSE i \in 1..Len(s) :
             OccursAt(s, sep, i) /\ \A j \in 1..(i - 1) : ~OccursAt(s, sep, j)
    ELSE 0

RECURSIVE Split(_, _)
\* s.split(sep): the pieces between the occurrences of sep, found left to right
Split(s, sep) ==
    IF Find(s, sep) = 0 THEN <<s>>
    ELSE <<SubSeq(s, 1, Find(s, sep) - 1)>>
         \o Split(SubSeq(s, Find(s, sep) + Len(sep), Len(s)), sep)

RECURSIVE Join(_)
\* ''.join(parts)
Join(parts) == IF parts = <<>> THEN <<>> ELSE Head(parts) \o Join(Tail(parts))

AllButLast_KeepsSingle(parts) ==
    IF Len(parts) = 1 THEN parts ELSE SubSeq(parts, 1, Len(parts) - 1)

\* parts[:-1]
AllButLast(parts) == SubSeq(parts, 1, Len(parts) - 1)

\* lines 80-82: what becomes article.text
fill_article_with_text(document_text) == Join(AllButLast(Split(document_text, Marker)))

\* re.search(r'Поступила в редакцию\s+\d{2}\.\d{2}\.\d{4}', s): the position
\* of the leftmost match, or 0
SearchDate(s) ==
    IF \E i \in 1..(Len(s) - 1) : s[i] = "R" /\ s[i + 1] \in {"d", "e"}
    THEN CHOOSE i \in 1..(Len(s) - 1) :
             /\ s[i] = "R" /\ s[i + 1] \in {"d", "e"}
             /\ \A j \in 1..(i - 1) : ~(s[j] = "R" /\ s[j + 1] \in {"d", "e"})
    ELSE 0

\* lines 98-101: the date is set, or text_date is None and .group raises
\* AttributeError, or strptime raises ValueError
fill_article_with_meta_information(article_text) ==
    IF SearchDate(article_text) = 0 THEN "AttributeError"
    ELSE IF article_text[SearchDate(article_text) + 1] = "e" THEN "ValueError"
    ELSE "set"

NoArticle == [text |-> <<>>, date |-> "unset"]

\* a page whose content is known beforehand: its anchors, as find_all('a')
\* gives them, and the hrefs of the anchors in its numbered rows
Page(anchors, rows) == [anchors |-> anchors, rows |-> rows]

NoSite == [p \in {} |-> Page(<<>>, <<>>)]

(***************************************************************************)
(* The configuration file.                                                 *)
(***************************************************************************)
Config(has_total, is_int, total, seeds_kind, seeds, reset) ==
    [has_total |-> has_total, is_int |-> is_int, total |-> total,
     seeds_kind |-> seeds_kind, seed_urls |-> seeds, reset_parser |-> reset]

ValidConfigs ==
    {Config(TRUE, TRUE, b, "list", <<TocUrl>>, r) :
        b \in 1..MaxBudget, r \in {"absent", "true", "false"}}

InvalidConfigs ==
    { Config(FALSE, TRUE, 0, "list", <<TocUrl>>, "false"),
      Config(TRUE, FALSE, 0, "list", <<TocUrl>>, "false"),
      Config(TRUE, TRUE, 0, "list", <<TocUrl>>, "false"),
      Config(TRUE, TRUE, MaxArticlesLimit + 1, "list", <<TocUrl>>, "true"),
      Config(TRUE, TRUE, 1, "missing", <<>>, "false"),
      Config(TRUE, TRUE, 1, "notlist", <<>>, "false"),
      Config(TRUE, TRUE, 1, "list", <<>>, "true"),
      Config(TRUE, TRUE, 1, "list", <<ExternalUrl>>, "false"),
      Config(TRUE, TRUE, 1, "list", <<TocUrl, MailtoUrl>>, "true") }

validate_config_NoUpperLimit(c) ==
    IF ~c.has_total THEN "IncorrectNumberOfArticlesError"
    ELSE IF c.seeds_kind = "missing" THEN "IncorrectURLError"
    ELSE IF ~c.is_int THEN "IncorrectNumberOfArticlesError"
    ELSE IF c.total <= 0 THEN "IncorrectNumberOfArticlesError"
    ELSE IF c.seeds_kind # "list" \/ c.seed_urls = <<>> THEN "IncorrectURLError"
    ELSE IF \E i \in DOMAIN c.seed_urls : ~absolute_url_structure_is_valid(c.seed_urls[i])
         THEN "IncorrectURLError"
    ELSE "ok"

\* validate_config: the error it raises, or "ok"
validate_config(c) ==
    IF ~c.has_total THEN "IncorrectNumberOfArticlesError"
    ELSE IF c.seeds_kind = "missing" THEN "IncorrectURLError"
    ELSE IF ~c.is_int THEN "IncorrectNumberOfArticlesError"
    ELSE IF c.total <= 0 THEN "IncorrectNumberOfArticlesError"
    ELSE IF c.total > MaxArticlesLimit THEN "NumberOfArticlesOutOfRangeError"
    ELSE IF c.seeds_kind # "list" \/ c.seed_urls = <<>> THEN "IncorrectURLError"
    ELSE IF \E i \in DOMAIN c.seed_urls : ~absolute_url_structure_is_valid(c.seed_urls[i])
         THEN "IncorrectURLError"
    ELSE "ok"

should_reset_crawler_Always(c) == TRUE

should_reset_crawler(c) ==
    IF c.reset_parser = "absent" THEN TRUE ELSE c.reset_parser = "true"

\* the url field of record i is that of the site's article i, counted round
PriorUrl(i) == ArticleUrl(((i - 1) % Cardinality(ArticleNumbers)) + 1)

\* the directories a run may start from: no directory, or the metadata
\* records 1..k of earlier runs (ids are given out in sequence), each with
\* or without its artifact
Disks ==
    {NoDir} \cup
    UNION {{[exists |-> TRUE, meta |-> [i \in 1..k |-> PriorUrl(i)], pdf |-> p] :
               p \in SUBSET (1..k)} : k \in 0..MaxDiskId}

(***************************************************************************)
(* The state of a run.                                                     *)
(***************************************************************************)
VARIABLES
    pc,                 \* where the main block is
    config,             \* the configuration file
    disk,               \* the output directory
    pre_scrapped_urls,  \* the main block's pre_scrapped_urls
    max_articles,       \* Crawler.max_articles
    seed_urls,          \* Crawler._seed_urls
    urls,               \* Crawler.urls
    crawled_urls,       \* CrawlerRecursive.crawled_urls
    pre_count,          \* find_articles' pre_scrapped_url_count
    stack,              \* the active calls of crawl, innermost last
    idx,                \* the main loop's i, from 1
    slept,              \* a politeness delay has passed since the last fetch
    fetched,            \* how often each URL has been fetched in this run
    parsed,             \* the HTMLParser instances made: url and article_id
    prior_ids,          \* the ids in the directory when the crawler starts
    exc,                \* the exception that ended the run, or "none"
    listing,            \* the link extractor's document, when called alone
    extracted,          \* the link extractor's result, when called alone
    text,               \* the text of a downloaded document, when taken alone
    article,            \* the fields of the article filled from that text
    web                 \* the pages whose anchors are known beforehand

vars == <<pc, config, disk, pre_scrapped_urls, max_articles, seed_urls, urls,
          crawled_urls, pre_count, stack, idx, slept, fetched, parsed,
          prior_ids, exc, listing, extracted, text, article, web>>

crawler == <<max_articles, seed_urls, urls, crawled_urls, pre_count, stack>>

Frame(url, phase, left) == [url |-> url, phase |-> phase, left |-> left]

Top == stack[Len(stack)]

Pop == SubSeq(stack, 1, Len(stack) - 1)

SetTop(f) == [stack EXCEPT ![Len(stack)] = f]

Fetch(u) == fetched (+) SetToBag({u})

\* the process ends (an uncaught exception, or the end of the main block):
\* what it held in memory is gone, the directory and the configuration stay
Exit(how, e) ==
    /\ pc' = how
    /\ exc' = e
    /\ pre_scrapped_urls' = <<>>
    /\ max_articles' = 0
    /\ seed_urls' = <<>>
    /\ urls' = <<>>
    /\ crawled_urls' = {}
    /\ pre_count' = 0
    /\ stack' = <<>>
    /\ idx' = 1
    /\ slept' = FALSE
    /\ fetched' = EmptyBag
    /\ parsed' = <<>>
    /\ prior_ids' = {}

\* what no call has touched yet
Idle ==
    /\ pre_scrapped_urls = <<>>
    /\ seed_urls = <<>>
    /\ crawled_urls = {}
    /\ pre_count = 0
    /\ stack = <<>>
    /\ idx = 1
    /\ slept = FALSE
    /\ fetched = EmptyBag
    /\ parsed = <<>>
    /\ prior_ids = {}
    /\ exc = "none"
    /\ extracted = <<>>

\* a run of the main block
InitMain ==
    /\ pc = "validate"
    /\ config \in ValidConfigs \cup InvalidConfigs
    /\ disk \in Disks
    /\ pre_scrapped_urls = <<>>
    /\ max_articles = 0
    /\ seed_urls = <<>>
    /\ urls = <<>>
    /\ crawled_urls = {}
    /\ pre_count = 0
    /\ stack = <<>>
    /\ idx = 1
    /\ slept = FALSE
    /\ fetched = EmptyBag
    /\ parsed = <<>>
    /\ prior_ids = {}
    /\ exc = "none"
    /\ listing = <<>>
    /\ extracted = <<>>
    /\ text = <<>>
    /\ article = NoArticle
    /\ web = NoSite

(***************************************************************************)
(* The main block up to the crawler.                                       *)
(***************************************************************************)
\* line 334: validate_config raises, or returns the seeds and the budget
Validate ==
    /\ pc = "validate"
    /\ IF validate_config(config) = "ok"
       THEN /\ pc' = "reset"
            /\ UNCHANGED <<pre_scrapped_urls, crawler, idx, slept, fetched,
                           parsed, prior_ids, exc>>
       ELSE Exit("halted", validate_config(config))
    /\ UNCHANGED <<config, disk, listing, extracted, text, article, web>>

\* lines 336-337
Reset ==
    /\ pc = "reset"
    /\ disk' = IF should_reset_crawler(config) \/ ~disk.exists
               THEN prepare_environment(disk) ELSE disk
    /\ pc' = "load"
    /\ UNCHANGED <<config, pre_scrapped_urls, crawler, idx, slept, fetched,
                   parsed, prior_ids, exc, listing, extracted, text, article, web>>

\* lines 339-341: pre_scrapped_urls, and the crawler is constructed
LoadPrior ==
    /\ pc = "load"
    /\ \E files \in IterDir(disk) : pre_scrapped_urls' = load_scrapped_urls(disk, files)
    /\ prior_ids' = DOMAIN disk.meta \cup disk.pdf
    /\ seed_urls' = config.seed_urls
    /\ max_articles' = config.total
    /\ urls' = <<>>
    /\ crawled_urls' = {}
    /\ pc' = "find"
    /\ UNCHANGED <<config, disk, pre_count, stack, idx, slept, fetched, parsed,
                   exc, listing, extracted, text, article, web>>

\* find_articles, lines 181-187, up to the call of crawl
FindArticles ==
    /\ pc = "find"
    /\ \E files \in IterDir(disk) :
         /\ load_scrapped_urls(disk, files) = pre_scrapped_urls
         /\ urls' = load_scrapped_urls(disk, files)
    /\ pre_count' = Len(urls')
    /\ seed_urls' = <<>>
    /\ stack' = <<Frame(seed_urls[1], "enter", 0)>>
    /\ pc' = "crawl"
    /\ UNCHANGED <<config, disk, pre_scrapped_urls, max_articles, crawled_urls,
                   idx, slept, fetched, parsed, prior_ids, exc, listing, extracted, text, article, web>>

(***************************************************************************)
(* CrawlerRecursive.crawl. A call is a frame of the stack: the page, where *)
(* the call is, and how many anchors of links_bs the loop has yet to take. *)
(***************************************************************************)
BudgetReached_IgnoresPrior == Len(urls) - pre_count + 1 > max_articles

BudgetReached == Len(urls) + 1 > max_articles

\* lines 191-194: return at once when the budget is reached, else sleep
CrawlEnter ==
    /\ pc = "crawl" /\ stack # <<>> /\ Top.phase = "enter"
    /\ \/ /\ BudgetReached
          /\ stack' = Pop
          /\ slept' = slept
       \/ /\ ~BudgetReached
          /\ stack' = SetTop(Frame(Top.url, "fetch", 0))
          /\ slept' = TRUE
    /\ UNCHANGED <<pc, config, disk, pre_scrapped_urls, max_articles, seed_urls,
                   urls, crawled_urls, pre_count, idx, fetched, parsed,
                   prior_ids, exc, listing, extracted, text, article, web>>

\* line 198: how many anchors the page may have
PageSizes(url_to_crawl) ==
    IF url_to_crawl \in DOMAIN web THEN {Len(web[url_to_crawl].anchors)}
    ELSE 0..MaxLinks

\* lines 196-198: the page is fetched and its anchors found
CrawlFetch ==
    /\ pc = "crawl" /\ stack # <<>> /\ Top.phase = "fetch"
    /\ fetched' = Fetch(Top.url)
    /\ slept' = FALSE
    /\ \E n \in PageSizes(Top.url) : stack' = SetTop(Frame(Top.url, "loop", n))
    /\ UNCHANGED <<pc, config, disk, pre_scrapped_urls, max_articles, seed_urls,
                   urls, crawled_urls, pre_count, idx, parsed, prior_ids, exc,
                   listing, extracted, text, article, web>>

\* line 196: requests.get raises (no connection, timeout, ...); nothing
\* catches it, so the run ends
CrawlFetchRaises ==
    /\ pc = "crawl" /\ stack # <<>> /\ Top.phase = "fetch"
    /\ Exit("halted", IF Len(stack) = 1 THEN "fetch_seed" ELSE "fetch_inner")
    /\ UNCHANGED <<config, disk, listing, extracted, text, article, web>>

\* lines 202-212: the link an anchor with a non-empty href stands for
Resolve(url_to_crawl, a) ==
    IF MatchesScheme(a.href) THEN a.href ELSE UrlJoin(url_to_crawl, a.href)

Skipped_NoLanguageTest(url_to_crawl, a) ==
    \/ a.kind = "nohref"
    \/ a.kind = "empty"
    \/ ~absolute_url_structure_is_valid(Resolve(url_to_crawl, a))
    \/ Resolve(url_to_crawl, a) \in crawled_urls

\* lines 201-222: the anchors the loop passes over
Skipped(url_to_crawl, a) ==
    \/ a.kind = "nohref"
    \/ a.kind = "empty"
    \/ ~absolute_url_structure_is_valid(Resolve(url_to_crawl, a))
    \/ ~ContainsRussianRoot(Resolve(url_to_crawl, a))
    \/ ContainsEng(Resolve(url_to_crawl, a))
    \/ Resolve(url_to_crawl, a) \in crawled_urls

InLoop == pc = "crawl" /\ stack # <<>> /\ Top.phase = "loop" /\ Top.left > 0

\* line 200: what the next anchor of the page may be
NextAnchors ==
    IF Top.url \in DOMAIN web
    THEN {web[Top.url].anchors[Len(web[Top.url].anchors) - Top.left + 1]}
    ELSE Anchors

\* the links the next anchor of the page may stand for, past lines 201-222
NewLinks(url_to_crawl) ==
    {Resolve(url_to_crawl, a) : a \in {x \in NextAnchors : ~Skipped(url_to_crawl, x)}}

\* lines 200-222: continue
CrawlSkipLink ==
    /\ InLoop
    /\ {a \in NextAnchors : Skipped(Top.url, a)} # {}
    /\ stack' = SetTop(Frame(Top.url, "loop", Top.left - 1))
    /\ UNCHANGED <<pc, config, disk, pre_scrapped_urls, max_articles, seed_urls,
                   urls, crawled_urls, pre_count, idx, slept, fetched, parsed,
                   prior_ids, exc, listing, extracted, text, article, web>>

LeftAfterIssue_AlwaysBreaks(new_urls, left) == 0

\* line 235: whether the loop goes on after an issue page
LeftAfterIssue(new_urls, left) ==
    IF Len(new_urls) + 1 > max_articles THEN 0 ELSE left - 1

\* line 233: what the link extractor may return for the issue page fetched
Extracted(link) ==
    {extract_url(article_bs, urls, max_articles) :
        article_bs \in IF link \in DOMAIN web THEN {web[link].rows}
                       ELSE SeqsUpTo(RowHrefs, MaxRowLinks)}

\* lines 224-236: an issue link is fetched at once and its articles join urls
CrawlIssueLink ==
    /\ InLoop
    /\ \E link \in NewLinks(Top.url) :
         /\ IsIssueLink(link)
         /\ crawled_urls' = crawled_urls \cup {link}
         /\ seed_urls' = Append(seed_urls, link)
         /\ fetched' = Fetch(link)
         /\ \E found \in Extracted(link) :
              /\ urls' = urls \o found
              /\ stack' = SetTop(Frame(Top.url, "loop", LeftAfterIssue(urls', Top.left)))
    /\ slept' = FALSE
    /\ UNCHANGED <<pc, config, disk, pre_scrapped_urls, max_articles, pre_count,
                   idx, parsed, prior_ids, exc, listing, extracted, text, article, web>>

\* line 230: requests.get raises; nothing catches it, so the run ends
CrawlIssueFetchRaises ==
    /\ InLoop
    /\ {link \in NewLinks(Top.url) : IsIssueLink(link)} # {}
    /\ Exit("halted", "fetch_inner")
    /\ UNCHANGED <<config, disk, listing, extracted, text, article, web>>

\* lines 224-225, 239: any other link is crawled in turn
CrawlRecurse ==
    /\ InLoop
    /\ \E link \in NewLinks(Top.url) :
         /\ ~IsIssueLink(link)
         /\ crawled_urls' = crawled_urls \cup {link}
         /\ stack' = Append(SetTop(Frame(Top.url, "loop", Top.left - 1)),
                            Frame(link, "enter", 0))
    /\ UNCHANGED <<pc, config, disk, pre_scrapped_urls, max_articles, seed_urls,
                   urls, pre_count, idx, slept, fetched, parsed, prior_ids, exc,
                   listing, extracted, text, article, web>>

\* the loop of lines 200-239 is over: crawl returns
CrawlReturn ==
    /\ pc = "crawl" /\ stack # <<>> /\ Top.phase = "loop" /\ Top.left = 0
    /\ stack' = Pop
    /\ UNCHANGED <<pc, config, disk, pre_scrapped_urls, max_articles, seed_urls,
                   urls, crawled_urls, pre_count, idx, slept, fetched, parsed,
                   prior_ids, exc, listing, extracted, text, article, web>>

new_urls_KeepsAll(all_urls, n) == all_urls

\* line 188: the previously persisted URLs are cut off
new_urls(all_urls, n) == SubSeq(all_urls, n + 1, Len(all_urls))

FindArticlesEnd ==
    /\ pc = "crawl" /\ stack = <<>>
    /\ urls' = new_urls(urls, pre_count)
    /\ idx' = 1
    /\ pc' = "parse"
    /\ UNCHANGED <<config, disk, pre_scrapped_urls, max_articles, seed_urls,
                   crawled_urls, pre_count, stack, slept, fetched, parsed,
                   prior_ids, exc, listing, extracted, text, article, web>>

(***************************************************************************)
(* The main loop, lines 344-347, and HTMLParser.parse.                     *)
(***************************************************************************)
\* line 345: i + len(pre_scrapped_urls) + 1, with i counted from 0
article_id_NoPrior(i, pre) == i

article_id(i, pre) == (i - 1) + Len(pre) + 1

Current == parsed[Len(parsed)]

\* lines 345, 56: the parser is made and parse sleeps
ParseBegin ==
    /\ pc = "parse" /\ idx <= Len(urls)
    /\ parsed' = Append(parsed, [url |-> urls[idx],
                                 id |-> article_id(idx, pre_scrapped_urls)])
    /\ slept' = TRUE
    /\ pc' = "parsing"
    /\ UNCHANGED <<config, disk, pre_scrapped_urls, crawler, idx, fetched,
                   prior_ids, exc, listing, extracted, text, article, web>>

\* lines 58-64, 347: the article page is fetched, the document downloaded,
\* the fields filled, and the article saved
ParseSave ==
    /\ pc = "parsing"
    /\ fetched' = Fetch(Current.url)
    /\ slept' = FALSE
    /\ disk' = [disk EXCEPT !.meta = (Current.id :> Current.url) @@ @,
                            !.pdf = @ \cup {Current.id}]
    /\ idx' = idx + 1
    /\ pc' = "parse"
    /\ UNCHANGED <<config, pre_scrapped_urls, crawler, parsed, prior_ids, exc,
                   listing, extracted, text, article, web>>

\* line 58: requests.get raises
ParseFetchRaises ==
    /\ pc = "parsing"
    /\ Exit("halted", "fetch_article")
    /\ UNCHANGED <<config, disk, listing, extracted, text, article, web>>

\* lines 70-75 raise (no download cell, row or link): nothing was written
ParseRaisesBeforeDownload ==
    /\ pc = "parsing"
    /\ Exit("halted", "extraction")
    /\ UNCHANGED <<config, disk, listing, extracted, text, article, web>>

\* lines 78-101 raise after the document was downloaded (no Authors cell,
\* no date in the text)
ParseRaisesAfterDownload ==
    /\ pc = "parsing"
    /\ disk' = [disk EXCEPT !.pdf = @ \cup {Current.id}]
    /\ Exit("halted", "extraction")
    /\ UNCHANGED <<config, listing, extracted, text, article, web>>

\* the loop of line 344 is over
Finish ==
    /\ pc = "parse" /\ idx > Len(urls)
    /\ Exit("done", "none")
    /\ UNCHANGED <<config, disk, listing, extracted, text, article, web>>

(***************************************************************************)
(* Crawler.find_articles, lines 146-159: the crawler over listed seeds,    *)
(* used on its own.                                                        *)
(***************************************************************************)
InitFlat ==
    /\ pc = "flat"
    /\ config = Config(TRUE, TRUE, 1, "list", <<TocUrl>>, "false")
    /\ disk = NoDir
    /\ max_articles \in 1..MaxBudget
    /\ seed_urls \in SeqsUpTo({IssueUrl(k) : k \in IssueNumbers}, MaxLinks)
    /\ urls = <<>>
    /\ pre_scrapped_urls = <<>>
    /\ crawled_urls = {}
    /\ pre_count = 0
    /\ stack = <<>>
    /\ idx = 1
    /\ slept = FALSE
    /\ fetched = EmptyBag
    /\ parsed = <<>>
    /\ prior_ids = {}
    /\ exc = "none"
    /\ listing = <<>>
    /\ extracted = <<>>
    /\ text = <<>>
    /\ article = NoArticle
    /\ web = NoSite

\* lines 150-154: the next seed, unless the budget is reached
FlatNextSeed ==
    /\ pc = "flat"
    /\ \/ /\ idx > Len(seed_urls) \/ BudgetReached
          /\ pc' = "flat_done"
          /\ slept' = slept
       \/ /\ idx <= Len(seed_urls) /\ ~BudgetReached
          /\ pc' = "flat_fetch"
          /\ slept' = TRUE
    /\ UNCHANGED <<config, disk, pre_scrapped_urls, crawler, idx, fetched,
                   parsed, prior_ids, exc, listing, extracted, text, article, web>>

\* lines 156-159
FlatFetch ==
    /\ pc = "flat_fetch"
    /\ fetched' = Fetch(seed_urls[idx])
    /\ slept' = FALSE
    /\ \E found \in Extracted(seed_urls[idx]) : urls' = urls \o found
    /\ idx' = idx + 1
    /\ pc' = "flat"
    /\ UNCHANGED <<config, disk, pre_scrapped_urls, max_articles, seed_urls,
                   crawled_urls, pre_count, stack, parsed, prior_ids, exc,
                   listing, extracted, text, article, web>>

\* line 156: requests.get raises
FlatFetchRaises ==
    /\ pc = "flat_fetch"
    /\ Exit("halted", "fetch_seed")
    /\ UNCHANGED <<config, disk, listing, extracted, text, article, web>>

Init == InitMain \/ InitFlat

Next ==
    \/ Validate
    \/ Reset
    \/ LoadPrior
    \/ FindArticles
    \/ CrawlEnter
    \/ CrawlFetch
    \/ CrawlFetchRaises
    \/ CrawlSkipLink
    \/ CrawlIssueLink
    \/ CrawlIssueFetchRaises
    \/ CrawlRecurse
    \/ CrawlReturn
    \/ FindArticlesEnd
    \/ ParseBegin
    \/ ParseSave
    \/ ParseFetchRaises
    \/ ParseRaisesBeforeDownload
    \/ ParseRaisesAfterDownload
    \/ Finish
    \/ FlatNextSeed
    \/ FlatFetch
    \/ FlatFetchRaises

Spec == Init /\ [][Next]_vars

(***************************************************************************)
(* load_scrapped_urls called on its own, on directories that also hold     *)
(* records with ids of two digits.                                         *)
(***************************************************************************)
LoadIds == {1, 2, 10, 12}

LoadDisks ==
    {NoDir} \cup
    {[exists |-> TRUE, meta |-> [i \in m |-> PriorUrl(i)], pdf |-> p] :
        m \in SUBSET LoadIds, p \in SUBSET LoadIds}

InitLoad ==
    /\ pc = "load_call"
    /\ config = Config(TRUE, TRUE, 1, "list", <<TocUrl>>, "false")
    /\ disk \in LoadDisks
    /\ max_articles = 0
    /\ urls = <<>>
    /\ listing = <<>>
    /\ Idle
    /\ text = <<>>
    /\ article = NoArticle
    /\ web = NoSite

LoadCall ==
    /\ pc = "load_call"
    /\ \E files \in IterDir(disk) : pre_scrapped_urls' = load_scrapped_urls(disk, files)
    /\ pc' = "load_done"
    /\ UNCHANGED <<config, disk, crawler, idx, slept, fetched, parsed,
                   prior_ids, exc, listing, extracted, text, article, web>>

NextLoad == LoadCall

SpecLoad == InitLoad /\ [][NextLoad]_vars

(***************************************************************************)
(* _extract_url called on its own: any listing of up to MaxListing anchors *)
(* over five article hrefs and an author href, any budget, and a frontier  *)
(* of up to two URLs found before.                                         *)
(***************************************************************************)
MaxListing == 5

ListingHrefs == {AnumHref(k) : k \in 1..5} \cup {AuthorHref}

AlreadyFound == {<<>>, <<ArticleUrl(2)>>, <<ArticleUrl(3), ArticleUrl(1)>>}

InitExtract ==
    /\ pc = "extract_call"
    /\ config = Config(TRUE, TRUE, 1, "list", <<TocUrl>>, "false")
    /\ disk = NoDir
    /\ max_articles \in 1..MaxBudget
    /\ urls \in AlreadyFound
    /\ listing \in SeqsUpTo(ListingHrefs, MaxListing)
    /\ Idle
    /\ text = <<>>
    /\ article = NoArticle
    /\ web = NoSite

ExtractCall ==
    /\ pc = "extract_call"
    /\ extracted' = extract_url(listing, urls, max_articles)
    /\ pc' = "extract_done"
    /\ UNCHANGED <<config, disk, pre_scrapped_urls, crawler, idx, slept,
                   fetched, parsed, prior_ids, exc, listing, text, article, web>>

NextExtract == ExtractCall

SpecExtract == InitExtract /\ [][NextExtract]_vars

(***************************************************************************)
(* CrawlerRecursive.find_articles over a site known beforehand: a table of *)
(* contents, a navigation page and two issue pages, linked in every way    *)
(* the bounds allow (cycles included); issue page k lists article k. The   *)
(* program never stops of itself between two steps, hence the fairness.    *)
(***************************************************************************)
MaxSiteLinks == 2

Hrefs(S) == {Anchor("href", u) : u \in S}

Sites ==
    {[p \in {TocUrl, NavUrl(1), IssueUrl(1), IssueUrl(2)} |->
         CASE p = TocUrl -> Page(t, <<>>)
           [] p = NavUrl(1) -> Page(n, <<>>)
           [] p = IssueUrl(1) -> Page(i, <<AnumHref(1)>>)
           [] OTHER -> Page(<<>>, <<AnumHref(2)>>)] :
        t \in SeqsUpTo(Hrefs({NavUrl(1), IssueUrl(1), IssueUrl(2)}), MaxSiteLinks),
        n \in SeqsUpTo(Hrefs({TocUrl, IssueUrl(1), IssueUrl(2)}), MaxSiteLinks),
        i \in SeqsUpTo(Hrefs({NavUrl(1), IssueUrl(2)}), 1)}

InitSite ==
    /\ pc = "find"
    /\ config \in {Config(TRUE, TRUE, b, "list", <<TocUrl>>, "true") : b \in 1..MaxBudget}
    /\ disk = EmptyDir
    /\ max_articles = config.total
    /\ urls = <<>>
    /\ listing = <<>>
    /\ pre_scrapped_urls = <<>>
    /\ seed_urls = config.seed_urls
    /\ crawled_urls = {}
    /\ pre_count = 0
    /\ stack = <<>>
    /\ idx = 1
    /\ slept = FALSE
    /\ fetched = EmptyBag
    /\ parsed = <<>>
    /\ prior_ids = {}
    /\ exc = "none"
    /\ extracted = <<>>
    /\ text = <<>>
    /\ article = NoArticle
    /\ web \in Sites

NextSite ==
    \/ FindArticles
    \/ CrawlEnter
    \/ CrawlFetch
    \/ CrawlFetchRaises
    \/ CrawlSkipLink
    \/ CrawlIssueLink
    \/ CrawlIssueFetchRaises
    \/ CrawlRecurse
    \/ CrawlReturn
    \/ FindArticlesEnd

SpecSite == InitSite /\ [][NextSite]_vars /\ WF_vars(NextSite)

(***************************************************************************)
(* The text part of HTMLParser.parse taken on its own: the text the        *)
(* download gave, split and joined, then searched for the date.            *)
(***************************************************************************)
InitText ==
    /\ pc = "text_call"
    /\ config = Config(TRUE, TRUE, 1, "list", <<TocUrl>>, "false")
    /\ disk = NoDir
    /\ max_articles = 0
    /\ urls = <<>>
    /\ listing = <<>>
    /\ Idle
    /\ text \in SeqsUpTo(TextChars, MaxTextLen)
    /\ article = NoArticle
    /\ web = NoSite

TextCall ==
    /\ pc = "text_call"
    /\ article' = [text |-> fill_article_with_text(text),
                   date |-> fill_article_with_meta_information(fill_article_with_text(text))]
    /\ pc' = "text_done"
    /\ UNCHANGED <<config, disk, pre_scrapped_urls, crawler, idx, slept,
                   fetched, parsed, prior_ids, exc, listing, extracted, text, web>>

NextText == TextCall

SpecText == InitText /\ [][NextText]_vars

(***************************************************************************)
(* Properties.                                                             *)
(***************************************************************************)
Max(a, b) == IF a >= b THEN a ELSE b

Min(a, b) == IF a <= b THEN a ELSE b

NoDuplicates(s) == \A i, j \in DOMAIN s : i # j => s[i] # s[j]

Traversing == pc \in {"crawl", "flat", "flat_fetch"}

AfterFindArticles == pc \in {"parse", "parsing"}

\* C1 as stated: at every point of a traversal the size of self.urls is at
\* most max_articles.
C1_FrontierWithinBudget == Traversing => Len(urls) <= max_articles

\* C1 amended: at every point of a traversal the size of self.urls is at
\* most the larger of max_articles and the number of previously persisted
\* URLs the traversal started from (none for Crawler.find_articles).
C1_FrontierWithinBudgetOrPrior ==
    Traversing => Len(urls) <= Max(max_articles, pre_count)

\* previously persisted URLs and new ones together fill the budget exactly
C1_Witness ==
    /\ pc = "crawl"
    /\ pre_count > 0
    /\ Len(urls) > pre_count
    /\ Len(urls) = max_articles

C3_EachUrlFetchedAtMostOnce ==
    pc = "crawl" => \A u \in BagToSet(fetched) : CopiesIn(u, fetched) <= 1

\* C4: once an issue page has brought the frontier to the budget, no call of
\* crawl at any level fetches another page.
C4_NoFetchAfterBudgetReached ==
    [][(pc = "crawl" /\ pc' = "crawl" /\ Len(urls) > pre_count /\ BudgetReached)
          => fetched' = fetched]_vars

\* C5: every article persisted in a run has an id greater than every id the
\* directory held when the run started to crawl.
C5_NewIdsAbovePriorIds ==
    AfterFindArticles =>
        \A k \in 1..(idx - 1) : \A j \in prior_ids : parsed[k].id > j

\* C6: with n URLs returned by load_scrapped_urls, the k-th article of the
\* frontier is given the id n + k; the ids of a run are strictly increasing.
C6_IdsContinueFromPriorCount ==
    AfterFindArticles =>
        /\ \A k \in DOMAIN parsed :
              /\ parsed[k].url = urls[k]
              /\ parsed[k].id = Len(pre_scrapped_urls) + k
        /\ \A k, l \in DOMAIN parsed : k < l => parsed[k].id < parsed[l].id

\* records 1 and 2 were persisted before; two new articles got ids 3 and 4
C6_Witness ==
    /\ pc = "parse"
    /\ Len(pre_scrapped_urls) = 2
    /\ Len(urls) = 2
    /\ idx = 3
    /\ parsed[1].id = 3
    /\ parsed[2].id = 4

\* the records of a directory whose own artifact exists
OwnArtifact(d) == {i \in DOMAIN d.meta : i \in d.pdf}

\* C7: load_scrapped_urls returns the url fields of exactly the records
\* whose own artifact (the one with the record's id) exists, ids of two
\* digits included, and nothing when there is no directory.
C7_LoadReturnsRecordsWithOwnArtifact ==
    pc = "load_done" =>
        \E f \in [1..Cardinality(OwnArtifact(disk)) -> OwnArtifact(disk)] :
            /\ Range(f) = OwnArtifact(disk)
            /\ pre_scrapped_urls = [k \in DOMAIN f |-> disk.meta[f[k]]]

\* C8: with reset_parser false and an existing directory no step of the run
\* removes a record or an artifact, and no parser is made for a URL that
\* load_scrapped_urls returned.
C8_NoPurgeNoRefetch ==
    [][(config.reset_parser = "false" /\ disk.exists)
          => /\ DOMAIN disk.meta \subseteq DOMAIN disk'.meta
             /\ disk.pdf \subseteq disk'.pdf
             /\ pc' = "parsing" =>
                   parsed'[Len(parsed')].url \notin Range(pre_scrapped_urls')]_vars

\* a run that kept two persisted records is parsing a new article
C8_Witness ==
    /\ pc = "parsing"
    /\ config.reset_parser = "false"
    /\ Len(pre_scrapped_urls) = 2
    /\ {1, 2} \subseteq DOMAIN disk.meta

\* the places of a listing where an article link not found before stands
\* for the first time
FirstNew(doc, already) ==
    {i \in DOMAIN doc :
        /\ MatchesAnum(doc[i])
        /\ JoinDomain(doc[i]) \notin Range(already)
        /\ \A j \in 1..(i - 1) : doc[j] # doc[i]}

\* the k-th of a set of places
Nth(P, k) == CHOOSE i \in P : Cardinality({j \in P : j <= i}) = k

\* C9: _extract_url returns the first min(max(b - a, 0), d) of the d
\* distinct new article links of the listing, in document order.
C9_ExtractReturnsFirstNewLinks ==
    pc = "extract_done" =>
        LET P == FirstNew(listing, urls)
            m == Min(Max(max_articles - Len(urls), 0), Cardinality(P))
        IN  extracted = [k \in 1..m |-> JoinDomain(listing[Nth(P, k)])]

\* budget 3, nothing found before, five distinct article links: the first
\* three are returned
C9_Witness ==
    /\ pc = "extract_done"
    /\ max_articles = 3
    /\ urls = <<>>
    /\ listing = [k \in 1..5 |-> AnumHref(6 - k)]
    /\ extracted = <<ArticleUrl(5), ArticleUrl(4), ArticleUrl(3)>>

\* C10: a fetch failure of an inner page does not end the run.
C10_InnerFetchFailureIsDeadEnd == ~(pc = "halted" /\ exc = "fetch_inner")

\* C11: an extraction failure of one article leaves the run going: with
\* articles of the frontier still to come, the step that fails in
\* _fill_article_with_text or _fill_article_with_meta_information does not
\* end the run.
C11_ExtractionFailureIsLocal ==
    [][(pc = "parsing" /\ idx < Len(urls)) => ~(pc' = "halted" /\ exc' = "extraction")]_vars

\* C13: every fetch, of the crawler and of the parser, has a politeness
\* delay of its own right before it.
C13_EveryFetchAfterOwnDelay ==
    [][(\E u \in BagToSet(fetched') : CopiesIn(u, fetched') > CopiesIn(u, fetched))
          => slept]_vars

ConfigErrors == {"IncorrectNumberOfArticlesError", "NumberOfArticlesOutOfRangeError",
                 "IncorrectURLError"}

\* C14: with a configuration that fails validation the only step of the run
\* is the one that halts it with the error, with no fetch made and the
\* directory as it was.
C14_InvalidConfigHaltsFirst ==
    [][(config \in InvalidConfigs) =>
          (pc = "validate" /\ pc' = "halted" /\ exc' \in ConfigErrors
           /\ disk' = disk /\ fetched = EmptyBag /\ fetched' = EmptyBag)]_vars

C14_Witness ==
    /\ pc = "halted" /\ exc = "NumberOfArticlesOutOfRangeError"
    /\ config.total = MaxArticlesLimit + 1 /\ config.reset_parser = "true"
    /\ disk.exists /\ DOMAIN disk.meta # {} /\ fetched = EmptyBag

\* lines 214-219: the three tests a link has to pass
Passes(link) ==
    /\ absolute_url_structure_is_valid(link)
    /\ ContainsRussianRoot(link)
    /\ ~ContainsEng(link)

\* C16: every URL of crawled_urls passes absolute_url_structure_is_valid,
\* contains the Russian root and does not contain 'eng'; every page fetched
\* and every page crawl is called for, the seed apart, is in crawled_urls.
C16_VisitedLinksPassFilters ==
    pc = "crawl" =>
        /\ \A u \in crawled_urls : Passes(u)
        /\ \A u \in BagToSet(fetched) : u = config.seed_urls[1] \/ u \in crawled_urls
        /\ \A i \in DOMAIN stack : i = 1 \/ stack[i].url \in crawled_urls

C16_Witness ==
    /\ pc = "crawl"
    /\ crawled_urls = {NavUrl(1), IssueUrl(1)}
    /\ BagToSet(fetched) = {TocUrl, NavUrl(1), IssueUrl(1)}
    /\ Len(stack) = 2 /\ Top.phase = "loop" /\ Top.left = 0

\* C17: with n previously persisted URLs and the budget b, find_articles
\* finds at most max(0, b - n) new articles; with n >= b it fetches nothing
\* and returns an empty frontier.
C17_PriorUrlsConsumeBudget ==
    /\ pc = "crawl" => Len(urls) - pre_count <= Max(0, max_articles - pre_count)
    /\ AfterFindArticles => Len(urls) <= Max(0, max_articles - pre_count)
    /\ (pc = "crawl" /\ pre_count >= max_articles) =>
           (fetched = EmptyBag /\ Len(urls) = pre_count)
    /\ (AfterFindArticles /\ pre_count >= max_articles) =>
           (fetched = EmptyBag /\ urls = <<>>)

C17_Witness ==
    /\ pc = "parse" /\ pre_count = 2 /\ max_articles = 2 /\ Len(pre_scrapped_urls) = 2
    /\ urls = <<>> /\ fetched = EmptyBag

IsPrefix(s, t) == Len(s) <= Len(t) /\ SubSeq(t, 1, Len(s)) = s

\* C18: while crawl runs, self.urls only grows at its end, the first
\* pre_scrapped_url_count entries being those find_articles loaded; what
\* find_articles leaves in self.urls is the rest, in the order found.
C18_FrontierAppendOnly ==
    [][/\ (pc = "find" /\ pc' = "crawl") => pre_count' = Len(urls')
       /\ (pc = "crawl" /\ pc' = "crawl") =>
              (IsPrefix(urls, urls') /\ pre_count' = pre_count)
       /\ (pc = "crawl" /\ pc' = "parse") =>
              (/\ Len(urls') = Len(urls) - pre_count
               /\ \A k \in 1..Len(urls') : urls'[k] = urls[pre_count + k])]_vars

C18_Witness ==
    /\ pc = "parse" /\ idx = 1 /\ pre_count = 1 /\ Len(urls) = 2
    /\ urls[1] = ArticleUrl(3) /\ urls[2] = ArticleUrl(2)

\* the positions at which the marker occurs in a text
Occurrences(s) == {i \in 1..Len(s) : OccursAt(s, Marker, i)}

Last(P) == CHOOSE i \in P : \A j \in P : j <= i

\* C12: for a text in which the marker occurs, article.text is the text
\* before the last occurrence of the marker, earlier occurrences included.
C12_BodyIsPrefixBeforeLastMarker ==
    (pc = "text_done" /\ Occurrences(text) # {}) =>
        article.text = SubSeq(text, 1, Last(Occurrences(text)) - 1)

\* C19: for a text in which the marker does not occur, article.text is the
\* empty string, the date search finds nothing and the article fails.
C19_NoMarkerGivesEmptyBody ==
    (pc = "text_done" /\ Occurrences(text) = {}) =>
        (article.text = <<>> /\ article.date = "AttributeError")

C19_Witness ==
    /\ pc = "text_done" /\ text = <<"x", "R", "d", "x">>
    /\ article.text = <<>> /\ article.date = "AttributeError"

\* the links on a known page that pass the tests of lines 201-219
LinksOn(p) ==
    {Resolve(p, web[p].anchors[i]) : i \in DOMAIN web[p].anchors} \cap {u \in DOMAIN web : Passes(u)}

RECURSIVE Reach(_)
\* the pages linked, directly or not, from the pages of S
Reach(S) ==
    IF UNION {LinksOn(p) : p \in S} \subseteq S THEN S
    ELSE Reach(S \cup UNION {LinksOn(p) : p \in S})

\* the pages crawl was called for: the seed and the visited links that are
\* no issue links
Traversed == {config.seed_urls[1]} \cup {u \in crawled_urls : ~IsIssueLink(u)}

Returned == pc = "parse" /\ idx = 1 /\ parsed = <<>>

BudgetMet == pre_count + Len(urls) >= max_articles

Terminates == <>(pc \in {"parse", "halted"})

\* C15 as stated: the traversal terminates, and when it has returned the
\* frontier has reached the budget or every link reachable from the seed
\* that passes the tests has been visited.
C15_TerminatesExhaustive ==
    /\ Terminates
    /\ [](Returned =>
            (BudgetMet \/ Reach({config.seed_urls[1]}) \subseteq crawled_urls \cup {config.seed_urls[1]}))

\* C15 amended: the traversal terminates, and when it has returned the
\* frontier has reached the budget or every link that passes the tests and
\* stands on a page crawl was called for has been visited.
C15_TerminatesExhaustiveButIssuePages ==
    /\ Terminates
    /\ [](Returned => (BudgetMet \/ \A p \in Traversed : LinksOn(p) \subseteq crawled_urls))

C15_Witness ==
    /\ Returned /\ ~BudgetMet
    /\ web # NoSite
    /\ Anchor("href", TocUrl) \in Range(web[NavUrl(1)].anchors)
    /\ web[IssueUrl(1)].anchors = <<Anchor("href", IssueUrl(2))>>
    /\ crawled_urls = {TocUrl, NavUrl(1), IssueUrl(1)}

=============================================================================
